---- MODULE Spec2Model ----
(***************************************************************************)
(* Ledger / transfer bookkeeping of the banking dashboard.                 *)
(*                                                                         *)
(* The repository holds two builds of services/bankingService:             *)
(*   "clerk" : banking-app/src/services/bankingService.js, which keeps the *)
(*             bank data in the identity provider's user metadata and has  *)
(*             the positional transferMoney(user, from, to, amount, desc); *)
(*   "local" : unnamed/part_006 (repeated in cardService.js 278-833),      *)
(*             which keeps it in localStorage and has the options-based    *)
(*             transferMoney(user, options).                               *)
(* A behaviour runs one of the two builds; impl says which.                *)
(*                                                                         *)
(* Amounts and balances are integers (minor units).  Date.now() and        *)
(* new Date() are the clock `now`, which may stand still between calls.    *)
(***************************************************************************)
EXTENDS Integers, Sequences, FiniteSets, TLC

\* ------------------------------------------------------------------ bounds
MaxClock == 1
MaxAccounts == 2
MaxTransfers == 2
MaxAmount == 1
MaxOpening == 1
MaxFaults == 1
MaxReloads == 1
MaxInFlight == 2
MaxMock == 2
MaxLimit == 2
MaxPage == 2
MaxDigits == 2
MaxCards == 1
\* bankDataUpdated events a mounted Dashboard receives from elsewhere
MaxUpdates == 1

\* -------------------------------------------------------- program constants
BaseBalance == 1000

Users == {"u1", "u2"}
Impls == {"clerk", "local"}
Recipients == {"friend@example.com"}
PaymentMethods == {"pm_1"}
Categories == {"Food", "Transport"}
\* an id that no account has (undefined / unknown account id)
NoId == -1
Amounts == (0 - 1)..MaxAmount
OpeningBalances == 0..MaxOpening
\* the user object of each user, as a value distinct from the user's id
UserObject == [u \in Users |-> IF u = "u1" THEN "user(u1)" ELSE "user(u2)"]
\* what the template literal `bankData_${userId}` makes of its argument: an
\* id string as it is, an object as "[object Object]"
StorageKey(userId) == IF userId \in Users THEN userId ELSE "[object Object]"
StorageKeys == Users \cup {"[object Object]"}

VARIABLES
    impl,             \* which build of services/bankingService is loaded
    owners,           \* the users who sign in while the page lives
    now,              \* the clock read by Date.now() / new Date()
    defaultBankData,  \* the module-level object of the loaded build
    publicMetadata,   \* clerk: user.publicMetadata.bankData, <<>> when unset
    localStorage,     \* local: item bankData_<key>, <<>> when absent
    events,           \* owners named by dispatched bankDataUpdated events
    faults,           \* calls so far during which the store rejected writes
    reloads,          \* page reloads so far
    ret,              \* the call made by the last step and what it returned
    ui,               \* the React state of the dialog that is open
    cardMetadata      \* cardService: the metadata kept per user, <<>> if none

vars == <<impl, owners, now, defaultBankData, publicMetadata, localStorage,
          events, faults, reloads, ret, ui, cardMetadata>>

\* ------------------------------------------------------------ data shapes
NoTxId == [prefix |-> "", ts |-> 0, suffix |-> ""]

\* no dialog is open: every useState of the dialogs at its initial value.
\* pending holds the inputs captured by each handler run that is awaiting
NoDialog == [dialog |-> "", loading |-> FALSE, error |-> "", pending |-> <<>>]

Call(op) ==
    [op |-> op, user |-> "", fromAccountId |-> NoId, toAccountId |-> NoId,
     amount |-> 0, recipientEmail |-> "", paymentMethodId |-> "",
     persisted |-> TRUE, success |-> TRUE, error |-> "", balance |-> 0,
     dispatched |-> <<>>, result |-> <<>>, page |-> 0, limit |-> 0,
     dialog |-> "", payment |-> "", totalCount |-> 0, totalPages |-> 0,
     accountCount |-> 0, totalSpending |-> 0,
     loads |-> [u \in Users |-> 0], cardId |-> NoId, card |-> <<>>,
     cardNumber |-> <<>>]

\* the object literal `defaultBankData` as evaluated when the module loads
freshBankData(build, t) ==
    IF build = "clerk"
    THEN [accounts |-> <<>>, transactions |-> <<>>]
    ELSE [accounts |-> <<>>, transactions |-> <<>>, lastUpdated |-> t]

\* the state every operation reads and writes, threaded through one call
World == [d |-> defaultBankData, pm |-> publicMetadata, ls |-> localStorage,
          ev |-> events, dispatched |-> <<>>]

\* ------------------------------------------------------ persistence helpers
\* saveLocalStorageData(userId, data): stamps data.lastUpdated, writes the
\* JSON copy (setItem throws when ok is FALSE) and then dispatches the event.
\* aliased says that data is the module-level defaultBankData object itself.
saveLocalStorageData(w, userId, data, aliased, ok) ==
    LET stamped == [data EXCEPT !.lastUpdated = now]
    IN [w EXCEPT !.d = IF aliased THEN stamped ELSE @,
                 !.ls[StorageKey(userId)] = IF ok THEN <<stamped>> ELSE @,
                 !.ev = IF ok THEN @ \cup {userId} ELSE @,
                 !.dispatched = IF ok THEN Append(@, userId) ELSE @]

\* getLocalStorageData(userId): the parsed item, or defaultBankData itself
getLocalStorageData(w, userId) ==
    IF w.ls[StorageKey(userId)] # <<>> THEN w.ls[StorageKey(userId)][1]
    ELSE w.d

\* user.update({publicMetadata: {..., bankData}}); rejects when ok is FALSE
userUpdate(w, user, bankData, ok) ==
    [w EXCEPT !.pm[user] = IF ok THEN <<bankData>> ELSE @]

\* getMetadata handing out and writing accounts put back to their opening
\* balance
getMetadataReopened(w, user, ok) ==
    LET reopened == [w EXCEPT !.d.accounts =
                        [i \in DOMAIN w.d.accounts |->
                            [w.d.accounts[i] EXCEPT
                                 !.balance = w.d.accounts[i].opening]]]
    IN IF impl = "clerk"
       THEN userUpdate(reopened, user, reopened.d, ok)
       ELSE saveLocalStorageData(reopened, user, reopened.d, TRUE, ok)

\* getMetadata(user).  clerk: user.metadata is not a property of the user
\* resource, so the branch of line 16 is always taken.  local: the parsed
\* item (or defaultBankData) never has a bankData key, so the branch of
\* line 33 is always taken.  Either way defaultBankData is written out and
\* the very same object is returned; a failing write is caught.
getMetadata(w, user, ok) ==
    IF impl = "clerk"
    THEN userUpdate(w, user, w.d, ok)
    ELSE saveLocalStorageData(w, user, w.d, TRUE, ok)

\* updateMetadata(user, newBankData) with newBankData = defaultBankData, as
\* in every caller; a failing write is caught and reported as `false`.
updateMetadata(w, user, ok) ==
    IF impl = "clerk"
    THEN userUpdate(w, user, w.d, ok)
    ELSE saveLocalStorageData(w, user, w.d, TRUE, ok)

\* ------------------------------------------------------------ array helpers
\* accounts.find(acc => acc.id === id) as an index, 0 when nothing matches
findIndex(accounts, id) ==
    IF \E i \in DOMAIN accounts : accounts[i].id = id
    THEN CHOOSE i \in DOMAIN accounts :
             /\ accounts[i].id = id
             /\ \A j \in 1..(i - 1) : accounts[j].id # id
    ELSE 0

\* what a call leaves behind (w) and what it returns (r)
Outcome(w, r) == [w |-> w, r |-> r]

\* handleDataUpdate(event) of a Dashboard mounted for user: TRUE when it
\* calls loadDashboardData
handleDataUpdate(detail, user) == detail = user

\* how many loads the events dispatched one after the other start in a
\* Dashboard mounted for user
RECURSIVE loadsStarted(_, _)
loadsStarted(dispatched, user) ==
    IF dispatched = <<>> THEN 0
    ELSE (IF handleDataUpdate(Head(dispatched), user) THEN 1 ELSE 0)
         + loadsStarted(Tail(dispatched), user)

\* a step that makes the call with outcome o and nothing else
Commit(o) ==
    LET w == o.w
        r == o.r
    IN /\ faults' = IF r.persisted THEN faults ELSE faults + 1
       /\ defaultBankData' = w.d
       /\ publicMetadata' = w.pm
       /\ localStorage' = w.ls
       /\ events' = w.ev
       /\ ret' = [r EXCEPT !.dispatched = w.dispatched,
                           !.loads = [u \in Users |->
                                         loadsStarted(w.dispatched, u)]]
       /\ UNCHANGED <<impl, owners, now, reloads, cardMetadata>>

\* applyTransfer with the credit to the destination account lost
applyTransferDebitOnly(accounts, fromIdx, toIdx, amount) ==
    [accounts EXCEPT ![fromIdx].balance = @ - amount]

\* the two assignments `fromAccount.balance -= amount; toAccount.balance +=
\* amount` on the accounts found at fromIdx and toIdx (the same object when
\* the two indexes are equal)
applyTransfer(accounts, fromIdx, toIdx, amount) ==
    LET debited == [accounts EXCEPT ![fromIdx].balance = @ - amount]
    IN [debited EXCEPT ![toIdx].balance = @ + amount]

Tx(id, type, amount) ==
    [id |-> id, type |-> type, amount |-> amount, fromAccount |-> NoId,
     toAccount |-> NoId, description |-> <<>>, category |-> "",
     date |-> now, status |-> "", paymentMethodId |-> "",
     paymentMethod |-> ""]

TxId(prefix, suffix) == [prefix |-> prefix, ts |-> now, suffix |-> suffix]

\* the debit and the credit record of the positional transferMoney
transferRecords(fromAccountId, toAccountId, amount, description) ==
    LET base == [Tx(NoTxId, "", amount) EXCEPT
                     !.fromAccount = fromAccountId,
                     !.toAccount = toAccountId,
                     !.description = <<description>>,
                     !.status = "completed"]
    IN << [base EXCEPT !.id = TxId("", "-debit"), !.type = "debit"],
          [base EXCEPT !.id = TxId("", "-credit"), !.type = "credit"] >>

\* transferMoney of the clerk build between its two awaits: from the value
\* of `await getBankingData(user)` to the call of saveBankingData.  w1 is
\* the world in which getBankingData has resolved.
transferMoneyBalances(w1, user, fromAccountId, toAccountId, amount, description, ok) ==
    LET fromIdx == findIndex(w1.d.accounts, fromAccountId)
        toIdx == findIndex(w1.d.accounts, toAccountId)
        call == [Call("transferMoney") EXCEPT
                     !.user = user, !.fromAccountId = fromAccountId,
                     !.toAccountId = toAccountId, !.amount = amount,
                     !.persisted = ok]
    IN IF fromIdx = 0 \/ toIdx = 0
       THEN Outcome(w1, [call EXCEPT !.success = FALSE,
                                    !.error = "Account not found"])
       ELSE IF w1.d.accounts[fromIdx].balance < amount
       THEN Outcome(w1, [call EXCEPT !.success = FALSE,
                                    !.error = "Insufficient funds"])
       ELSE LET w2 == [w1 EXCEPT
                          !.d.accounts = applyTransfer(@, fromIdx, toIdx, amount),
                          !.d.transactions = @ \o
                              transferRecords(fromAccountId, toAccountId,
                                              amount, description)]
            IN Outcome(w2, call)

\* transferMoney(user, fromAccountId, toAccountId, amount, description) of
\* the clerk build, with nothing else running during its awaits
transferMoneyPositional(user, fromAccountId, toAccountId, amount, description, ok) ==
    LET o == transferMoneyBalances(getMetadata(World, user, ok), user,
                                   fromAccountId, toAccountId, amount,
                                   description, ok)
    IN IF o.r.success THEN Outcome(updateMetadata(o.w, user, ok), o.r)
       ELSE o

\* the record unshifted by the card-payment branch
cardPaymentRecord(recipientEmail, amount, description, paymentMethodId) ==
    [Tx(TxId("card-transfer-", ""), "card_payment", 0 - amount) EXCEPT
         !.description = <<"Card payment to ", recipientEmail, description>>,
         !.category = "Card Payment",
         !.paymentMethodId = paymentMethodId]

\* the record unshifted by the internal branch
internalTransferRecord(fromAccountId, toAccountId, amount, description) ==
    [Tx(TxId("tr-", ""), "transfer", amount) EXCEPT
         !.fromAccount = fromAccountId,
         !.toAccount = toAccountId,
         !.description = <<description>>,
         !.status = "completed"]

\* the record unshifted by the external branch
externalTransferRecord(recipientEmail, amount, description) ==
    [Tx(TxId("transfer-", ""), "external_transfer", 0 - amount) EXCEPT
         !.description = <<"Transfer to ", recipientEmail, description>>,
         !.category = "Transfer"]

\* the branch test with the external branch tried first
branchOfExternalFirst(options) ==
    IF options.recipientEmail # "" THEN "external"
    ELSE IF options.paymentMethodId # "" /\ options.recipientEmail # ""
    THEN "card"
    ELSE IF options.fromAccountId # NoId /\ options.toAccountId # NoId
    THEN "internal"
    ELSE "none"

\* the if / else if chain of transferMoney(user, options)
branchOf(options) ==
    IF options.paymentMethodId # "" /\ options.recipientEmail # ""
    THEN "card"
    ELSE IF options.fromAccountId # NoId /\ options.toAccountId # NoId
    THEN "internal"
    ELSE IF options.recipientEmail # "" THEN "external"
    ELSE "none"

\* transferMoney(user, options) of the local build
transferMoneyOptions(user, options, amount, description, ok) ==
    LET fromAccountId == options.fromAccountId
        toAccountId == options.toAccountId
        recipientEmail == options.recipientEmail
        paymentMethodId == options.paymentMethodId
        w1 == getMetadata(World, user, ok)
        fromIdx == findIndex(w1.d.accounts, fromAccountId)
        toIdx == findIndex(w1.d.accounts, toAccountId)
        call == [Call("transferMoney") EXCEPT
                     !.user = user, !.fromAccountId = fromAccountId,
                     !.toAccountId = toAccountId, !.amount = amount,
                     !.recipientEmail = recipientEmail,
                     !.paymentMethodId = paymentMethodId,
                     !.persisted = ok]
        fail(w, message) ==
            Outcome(w, [call EXCEPT !.success = FALSE, !.error = message])
        record(w, tx) ==
            Outcome(updateMetadata(
                       [w EXCEPT !.d.transactions = <<tx>> \o @], user, ok),
                   call)
    IN IF amount <= 0
       THEN fail(World, "Invalid transfer parameters")
       ELSE IF branchOf(options) = "card"
       THEN record(w1, cardPaymentRecord(recipientEmail, amount, description,
                                         paymentMethodId))
       ELSE IF branchOf(options) = "internal"
       THEN IF fromIdx = 0 \/ toIdx = 0
            THEN fail(w1, "One or both accounts not found")
            ELSE IF w1.d.accounts[fromIdx].balance < amount
            THEN fail(w1, "Insufficient funds")
            ELSE record([w1 EXCEPT !.d.accounts =
                             applyTransfer(@, fromIdx, toIdx, amount)],
                        internalTransferRecord(fromAccountId, toAccountId,
                                               amount, description))
       ELSE IF branchOf(options) = "external"
       THEN record(w1, externalTransferRecord(recipientEmail, amount,
                                              description))
       ELSE fail(w1, "Invalid transfer parameters: must provide either account IDs, recipient email, or payment method")

\* transactions.reduce(..., 1000) of getAccountBalance
RECURSIVE balanceFold(_, _)
balanceFold(total, transactions) ==
    IF transactions = <<>>
    THEN total
    ELSE balanceFold(IF Head(transactions).type = "credit"
                     THEN total + Head(transactions).amount
                     ELSE total - Head(transactions).amount,
                     Tail(transactions))

\* getAccountBalance(user)
getAccountBalance(user, ok) ==
    LET w1 == getMetadata(World, user, ok)
    IN Outcome(w1, [Call("getAccountBalance") EXCEPT
                       !.user = user, !.persisted = ok,
                       !.balance = balanceFold(BaseBalance,
                                               w1.d.transactions)])

\* transferMoneyBetweenUsers({senderId, recipientEmail, amount, description})
\* of the clerk build.  Past the validation it reaches
\* `mockTransactions.unshift(...)`; the module declares no mockTransactions
\* (the only one is local to getRecentTransactions), so the statement throws
\* a ReferenceError, which the catch turns into a failure result.
transferMoneyBetweenUsers(senderId, recipientEmail, amount) ==
    LET call == [Call("transferMoneyBetweenUsers") EXCEPT
                     !.user = senderId, !.recipientEmail = recipientEmail,
                     !.amount = amount, !.success = FALSE]
    IN IF senderId = "" \/ recipientEmail = "" \/ amount = 0
       THEN Outcome(World, [call EXCEPT
                             !.error = "Missing required transfer information"])
       ELSE Outcome(World, [call EXCEPT
                             !.error = "mockTransactions is not defined"])

\* processCardPayment(paymentMethodId, amount, recipientEmail) of the payment
\* service: mockApiCall always resolves, so the result is always a success
processCardPaymentMock(paymentMethodId, amount, recipientEmail) ==
    [success |-> TRUE, error |-> ""]

\* the record pushed by processCardPayment(userId, paymentData)
cardTransaction(amount, description) ==
    [Tx(TxId("", ""), "expense", amount) EXCEPT
         !.description = <<description>>,
         !.category = "Transfer",
         !.status = "completed",
         !.paymentMethod = "card"]

\* processCardPayment(userId, paymentData) of the local build
\* (cardService.js): after the simulated delay the record is pushed on the
\* parsed item, or on defaultBankData itself when there is no item, and saved;
\* a throwing save is caught and reported, the push on defaultBankData stays.
processCardPayment(w, userId, amount, description, ok) ==
    LET data == getLocalStorageData(w, userId)
        aliased == w.ls[StorageKey(userId)] = <<>>
        pushed == [data EXCEPT !.transactions =
                       Append(@, cardTransaction(amount, description))]
        w1 == saveLocalStorageData(w, userId, pushed, aliased, ok)
        call == [Call("processCardPayment") EXCEPT
                     !.user = userId, !.amount = amount, !.persisted = ok]
    IN IF ok
       THEN Outcome([w1 EXCEPT !.dispatched = Append(@, userId)], call)
       ELSE Outcome(w1, [call EXCEPT !.success = FALSE,
                                     !.error = "QuotaExceededError"])

\* addTransaction(userId, transactionData) of the local build: the record is
\* pushed on the parsed item, or on defaultBankData itself when there is no
\* item, and saved; a throwing save is caught and reported.
addTransaction(w, userId, transactionData, ok) ==
    LET newTransaction ==
            [Tx(TxId("", ""), transactionData.type, transactionData.amount)
                EXCEPT !.description = <<transactionData.description>>,
                       !.category = transactionData.category]
        data == getLocalStorageData(w, userId)
        aliased == w.ls[StorageKey(userId)] = <<>>
        pushed == [data EXCEPT !.transactions = Append(@, newTransaction)]
        w1 == saveLocalStorageData(w, userId, pushed, aliased, ok)
        call == [Call("addTransaction") EXCEPT
                     !.user = userId, !.amount = transactionData.amount,
                     !.persisted = ok]
    IN IF ok
       THEN Outcome(w1, call)
       ELSE Outcome(w1, [call EXCEPT !.success = FALSE,
                                     !.error = "Failed to add transaction"])

\* one record of generateMockTransactions: the i-th, dated i - 1 days back
mockTransaction(i, choice) ==
    [Tx([prefix |-> "trans-", ts |-> now, suffix |-> "mock"], choice.type,
        choice.amount)
        EXCEPT !.id.prefix = IF i = 1 THEN "trans-0-" ELSE "trans-1-",
               !.category = choice.category,
               !.date = now - (i - 1),
               !.status = "completed"]

\* what Math.random() can make of one generated record
MockChoices ==
    [type : {"expense", "income"}, category : Categories,
     amount : 1..MaxAmount]

\* the lists generateMockTransactions() can return, newest first
MockLists ==
    {[i \in 1..n |-> mockTransaction(i, choices[i])] :
        n \in {MaxMock}, choices \in [1..MaxMock -> MockChoices]}

\* where transactions.sort((a, b) => new Date(b.date) - new Date(a.date))
\* puts record t among the already sorted records: after every record that
\* is not older than t (the sort is stable)
RECURSIVE insertByDate(_, _)
insertByDate(sorted, t) ==
    IF sorted = <<>> THEN <<t>>
    ELSE IF Head(sorted).date >= t.date
    THEN <<Head(sorted)>> \o insertByDate(Tail(sorted), t)
    ELSE <<t>> \o sorted

RECURSIVE sortByDate(_)
sortByDate(transactions) ==
    IF transactions = <<>> THEN <<>>
    ELSE insertByDate(sortByDate(SubSeq(transactions, 1,
                                        Len(transactions) - 1)),
                      transactions[Len(transactions)])

\* startIndex = page * limit: the first page skipped
startIndexOffByOne(page, limit) == page * limit

\* startIndex = (page - 1) * limit
startIndex(page, limit) == (page - 1) * limit

\* array.slice(start, end), indexes from 0, end exclusive
slice(array, start, end) ==
    LET first == IF start < 0 THEN 0 ELSE start
        last == IF end > Len(array) THEN Len(array) ELSE end
    IN IF first >= last THEN <<>> ELSE SubSeq(array, first + 1, last)

\* the page count rounded down
floorDiv(count, limit) == count \div limit

\* Math.ceil(count / limit) for count >= 0 and limit >= 1
ceilDiv(count, limit) == (count + limit - 1) \div limit

\* getRecentTransactions(userId, page, limit) of the local build.  An empty
\* log is first filled with mock, the list generateMockTransactions()
\* returns, and saved; the sort is in place, on the parsed item or on
\* defaultBankData itself when there is no item.
getRecentTransactions(w, userId, page, limit, mock, ok) ==
    LET data == getLocalStorageData(w, userId)
        aliased == w.ls[StorageKey(userId)] = <<>>
        empty == data.transactions = <<>>
        filled == IF empty THEN [data EXCEPT !.transactions = mock] ELSE data
        w1 == IF empty
              THEN saveLocalStorageData(w, userId, filled, aliased, ok)
              ELSE w
        sorted == sortByDate(filled.transactions)
        w2 == IF aliased THEN [w1 EXCEPT !.d.transactions = sorted] ELSE w1
        call == [Call("getRecentTransactions") EXCEPT
                     !.user = userId, !.page = page, !.limit = limit,
                     !.persisted = ok \/ ~empty]
    IN IF empty /\ ~ok
       THEN Outcome(w1, [call EXCEPT !.success = FALSE,
                                     !.error = "Failed to fetch transactions"])
       ELSE Outcome(w2, [call EXCEPT
                            !.result = slice(sorted, startIndex(page, limit),
                                             startIndex(page, limit) + limit),
                            !.totalCount = Len(sorted),
                            !.totalPages = ceilDiv(Len(sorted), limit)])

\* the number of transactions getAccountSummary returns
RecentCount == 5

\* getAccountSummary(userId) of the local build from the end of its
\* `await Promise.all([simulateApiCall(...), ...])` on, data being what
\* getLocalStorageData(userId) returned before the await (defaultBankData
\* itself when aliased): fills and saves an empty log as
\* getRecentTransactions does, sorts in place and returns the first
\* RecentCount records and `data.accounts.length || 1`.
getAccountSummaryResume(w, userId, data, aliased, mock, ok) ==
    LET empty == data.transactions = <<>>
        filled == IF empty THEN [data EXCEPT !.transactions = mock] ELSE data
        w1 == IF empty
              THEN saveLocalStorageData(w, userId, filled, aliased, ok)
              ELSE w
        sorted == sortByDate(filled.transactions)
        w2 == IF aliased THEN [w1 EXCEPT !.d.transactions = sorted] ELSE w1
        call == [Call("getAccountSummary") EXCEPT
                     !.user = userId, !.persisted = ok \/ ~empty]
    IN IF empty /\ ~ok
       THEN Outcome(w1, [call EXCEPT !.success = FALSE,
                                     !.error = "Failed to get account summary"])
       ELSE Outcome(w2, [call EXCEPT
                            !.result = slice(sorted, 0, RecentCount),
                            !.accountCount =
                                IF Len(data.accounts) = 0 THEN 1
                                ELSE Len(data.accounts)])

\* getAccountSummary(userId) with nothing else running during its await
getAccountSummary(w, userId, mock, ok) ==
    getAccountSummaryResume(w, userId, getLocalStorageData(w, userId),
                            w.ls[StorageKey(userId)] = <<>>, mock, ok)

\* the reducer of getSpendingAnalytics: acc holds one entry per category,
\* in the order the categories are first met, and every transaction adds its
\* amount to the entry of its category
RECURSIVE spendingByCategory(_, _)
spendingByCategory(acc, transactions) ==
    IF transactions = <<>> THEN acc
    ELSE LET trans == Head(transactions)
             known == \E i \in DOMAIN acc : acc[i].category = trans.category
             acc1 == IF known THEN acc
                     ELSE Append(acc, [category |-> trans.category,
                                       amount |-> 0])
             acc2 == [i \in DOMAIN acc1 |->
                         IF acc1[i].category = trans.category
                         THEN [acc1[i] EXCEPT !.amount = @ + trans.amount]
                         ELSE acc1[i]]
         IN spendingByCategory(acc2, Tail(transactions))

\* transactions.reduce((sum, trans) => sum + trans.amount, 0)
RECURSIVE totalSpending(_)
totalSpending(transactions) ==
    IF transactions = <<>> THEN 0
    ELSE Head(transactions).amount + totalSpending(Tail(transactions))

\* getSpendingAnalytics(userId) of the local build
getSpendingAnalytics(w, userId) ==
    LET transactions == getLocalStorageData(w, userId).transactions
    IN Outcome(w, [Call("getSpendingAnalytics") EXCEPT
                      !.user = userId,
                      !.result = spendingByCategory(<<>>, transactions),
                      !.totalSpending = totalSpending(transactions)])

\* getBankAccounts(user)
getBankAccounts(w, user, ok) ==
    LET w1 == getMetadata(w, user, ok)
    IN Outcome(w1, [Call("getBankAccounts") EXCEPT
                        !.user = user, !.persisted = ok,
                        !.result = w1.d.accounts])

\* getAccountDetails(user, accountId)
getAccountDetails(w, user, accountId, ok) ==
    LET w1 == getMetadata(w, user, ok)
        idx == findIndex(w1.d.accounts, accountId)
        call == [Call("getAccountDetails") EXCEPT
                     !.user = user, !.fromAccountId = accountId,
                     !.persisted = ok]
    IN IF idx = 0
       THEN Outcome(w1, [call EXCEPT !.success = FALSE,
                                     !.error = "Account not found"])
       ELSE Outcome(w1, [call EXCEPT !.result = <<w1.d.accounts[idx]>>])

\* getAccountTransactions(user, accountId)
getAccountTransactions(w, user, accountId, ok) ==
    LET w1 == getMetadata(w, user, ok)
        transactions ==
            SelectSeq(w1.d.transactions,
                      LAMBDA trans : \/ trans.fromAccount = accountId
                                     \/ trans.toAccount = accountId)
    IN Outcome(w1, [Call("getAccountTransactions") EXCEPT
                        !.user = user, !.fromAccountId = accountId,
                        !.persisted = ok, !.result = transactions])

\* ------------------------------------------------------------------ actions
\* time passes
Tick ==
    /\ now < MaxClock
    /\ now' = now + 1
    /\ ret' = Call("tick")
    /\ UNCHANGED <<impl, owners, defaultBankData, publicMetadata, localStorage,
                   events, faults, reloads, ui, cardMetadata>>

\* the page is reloaded: the module is evaluated again, storage survives
Reload ==
    /\ reloads < MaxReloads
    /\ reloads' = reloads + 1
    /\ defaultBankData' = freshBankData(impl, now)
    /\ ret' = Call("reload")
    /\ UNCHANGED <<impl, owners, now, publicMetadata, localStorage, events,
                   faults, ui, cardMetadata>>

\* ids a caller may name: every id an account can have
AccountIds == 0..MaxClock
\* the options objects the pages pass to transferMoney(user, options):
\* account ids (internal), recipient (external), recipient and payment
\* method (card), or none of them
TransferOptions ==
    {[fromAccountId |-> f, toAccountId |-> t, recipientEmail |-> "",
      paymentMethodId |-> ""] : f, t \in AccountIds}
    \cup {[fromAccountId |-> NoId, toAccountId |-> NoId, recipientEmail |-> r,
           paymentMethodId |-> p] :
              r \in Recipients, p \in {""} \cup PaymentMethods}
    \cup {[fromAccountId |-> NoId, toAccountId |-> NoId, recipientEmail |-> "",
           paymentMethodId |-> ""]}
\* whether the store accepts the writes of a call
WriteOutcomes == IF faults < MaxFaults THEN BOOLEAN ELSE {TRUE}
Descriptions == {"lunch"}

\* addBankAccount(user, accountData) with accountData = {balance}
addBankAccount(user, balance, ok) ==
    LET w1 == getMetadata(World, user, ok)
        newAccount == [id |-> now, balance |-> balance, opening |-> balance,
                       createdAt |-> now, creator |-> user]
        w2 == [w1 EXCEPT !.d.accounts = Append(@, newAccount)]
        w3 == updateMetadata(w2, user, ok)
    IN Outcome(w3, [Call("addBankAccount") EXCEPT
                       !.user = user, !.amount = balance,
                       !.persisted = ok])

OpenAccount(limit) ==
    \E user \in owners, balance \in OpeningBalances, ok \in WriteOutcomes :
        /\ Len(defaultBankData.accounts) < limit
        /\ Commit(addBankAccount(user, balance, ok))
        /\ UNCHANGED ui

AddBankAccount == OpenAccount(MaxAccounts)

\* as AddBankAccount, with room for one more account
AddFurtherBankAccount == OpenAccount(MaxAccounts + 1)

InitData ==
    /\ impl \in Impls
    /\ now = 0
    /\ defaultBankData = freshBankData(impl, 0)
    /\ publicMetadata = [u \in Users |-> <<>>]
    /\ localStorage = [k \in StorageKeys |-> <<>>]
    /\ events = {}
    /\ faults = 0
    /\ reloads = 0
    /\ ret = Call("init")
    /\ ui = NoDialog
    /\ cardMetadata = [u \in Users |-> <<>>]

TransferMoneyPositional ==
    \E user \in owners, fromAccountId, toAccountId \in AccountIds,
       amount \in Amounts, description \in Descriptions, ok \in WriteOutcomes :
        /\ impl = "clerk"
        /\ Len(defaultBankData.transactions) < 2 * MaxTransfers
        /\ Commit(transferMoneyPositional(user, fromAccountId, toAccountId,
                                          amount, description, ok))
        /\ UNCHANGED ui

TransferMoneyOptions ==
    \E user \in owners, options \in TransferOptions, amount \in Amounts,
       description \in Descriptions, ok \in WriteOutcomes :
        /\ impl = "local"
        /\ Len(defaultBankData.transactions) < MaxTransfers
        /\ Commit(transferMoneyOptions(user, options, amount, description, ok))
        /\ UNCHANGED ui

\* transferMoney(user, options) with any combination of the optional fields
AllTransferOptions ==
    [fromAccountId : AccountIds \cup {NoId},
     toAccountId : AccountIds \cup {NoId},
     recipientEmail : {""} \cup Recipients,
     paymentMethodId : {""} \cup PaymentMethods]

TransferMoneyAnyOptions ==
    \E user \in owners, options \in AllTransferOptions,
       amount \in 0..MaxAmount, description \in Descriptions,
       ok \in WriteOutcomes :
        /\ impl = "local"
        /\ Len(defaultBankData.transactions) < MaxTransfers
        /\ Commit(transferMoneyOptions(user, options, amount, description, ok))
        /\ UNCHANGED ui

\* transferMoney(user, {recipientEmail, amount, description}), as the
\* bank-transfer tab of the TransferMoney dialog calls it
TransferMoneyExternal ==
    \E user \in owners, recipientEmail \in Recipients, amount \in Amounts,
       description \in Descriptions, ok \in WriteOutcomes :
        /\ impl = "local"
        /\ Len(defaultBankData.transactions) < MaxTransfers
        /\ Commit(transferMoneyOptions(user,
                      [fromAccountId |-> NoId, toAccountId |-> NoId,
                       recipientEmail |-> recipientEmail,
                       paymentMethodId |-> ""],
                      amount, description, ok))
        /\ UNCHANGED ui

GetAccountBalance ==
    \E user \in owners, ok \in WriteOutcomes :
        /\ Commit(getAccountBalance(user, ok))
        /\ UNCHANGED ui

TransferMoneyBetweenUsers ==
    \E senderId \in owners, recipientEmail \in Recipients, amount \in Amounts :
        /\ impl = "clerk"
        /\ Commit(transferMoneyBetweenUsers(senderId, recipientEmail, amount))
        /\ UNCHANGED ui

\* what the new-transaction dialog can send
TransactionTypes == {"debit", "credit"}
TransactionData ==
    [amount : 1..MaxAmount, type : TransactionTypes, category : Categories,
     description : Descriptions]
\* every log, in memory or stored, has room for one more record
RoomInLogs ==
    /\ Len(defaultBankData.transactions) < MaxTransfers
    /\ \A k \in StorageKeys : localStorage[k] # <<>> =>
           Len(localStorage[k][1].transactions) < MaxTransfers

AddTransaction ==
    \E user \in owners, transactionData \in TransactionData,
       ok \in WriteOutcomes :
        /\ impl = "local"
        /\ RoomInLogs
        /\ Commit(addTransaction(World, user, transactionData, ok))
        /\ UNCHANGED ui

\* handleAddTransaction of the Transactions page: the call is
\* addTransaction(user, newTransaction), with the user object for userId
TransactionsHandleAddTransaction ==
    \E user \in owners, transactionData \in TransactionData,
       ok \in WriteOutcomes :
        /\ impl = "local"
        /\ RoomInLogs
        /\ Commit(addTransaction(World, UserObject[user], transactionData, ok))
        /\ UNCHANGED ui

ProcessCardPayment ==
    \E user \in owners, amount \in 1..MaxAmount, description \in Descriptions,
       ok \in WriteOutcomes :
        /\ impl = "local"
        /\ RoomInLogs
        /\ Commit(processCardPayment(World, user, amount, description, ok))
        /\ UNCHANGED ui

\* the lists generateMockTransactions() can return to a read for userId: it
\* is called only when the log read is empty
MocksFor(userId) ==
    IF getLocalStorageData(World, userId).transactions = <<>>
    THEN MockLists ELSE {<<>>}

GetRecentTransactions ==
    \E user \in owners, page \in 1..MaxPage, limit \in 1..MaxLimit,
       ok \in WriteOutcomes :
        \E mock \in MocksFor(user) :
            /\ impl = "local"
            /\ Commit(getRecentTransactions(World, user, page, limit, mock,
                                            ok))
            /\ UNCHANGED ui

GetAccountSummary ==
    \E user \in owners, ok \in WriteOutcomes :
        \E mock \in MocksFor(user) :
            /\ impl = "local"
            /\ Commit(getAccountSummary(World, user, mock, ok))
            /\ UNCHANGED ui

GetSpendingAnalytics ==
    \E user \in owners :
        /\ impl = "local"
        /\ Commit(getSpendingAnalytics(World, user))
        /\ UNCHANGED ui

GetBankAccounts ==
    \E user \in owners, ok \in WriteOutcomes :
        /\ Commit(getBankAccounts(World, user, ok))
        /\ UNCHANGED ui

GetAccountDetails ==
    \E user \in owners, accountId \in AccountIds, ok \in WriteOutcomes :
        /\ Commit(getAccountDetails(World, user, accountId, ok))
        /\ UNCHANGED ui

GetAccountTransactions ==
    \E user \in owners, accountId \in AccountIds, ok \in WriteOutcomes :
        /\ Commit(getAccountTransactions(World, user, accountId, ok))
        /\ UNCHANGED ui

\* ------------------------------------------------------------ card service
\* A card number is the string typed into the form: a sequence of
\* characters, the digits 0..9 and NonDigit for any other character.
NonDigit == -1
Digits == 0..9
CardChars == Digits \cup {NonDigit}
CardNumbers == UNION {[1..k -> CardChars] : k \in 0..MaxDigits}
Cvvs == {<<1, 2, 3>>}

\* cardNumber.replace(/\D/g, '')
digitsOf(cardNumber) == SelectSeq(cardNumber, LAMBDA c : c \in Digits)

\* the loop of isValidCardNumber, from the rightmost digit (index i) leftward
RECURSIVE luhnLoop(_, _, _, _)
luhnLoop(digits, i, sum, isEven) ==
    IF i < 1 THEN sum
    ELSE LET doubled == IF isEven THEN digits[i] * 2 ELSE digits[i]
             digit == IF isEven /\ doubled > 9 THEN doubled - 9 ELSE doubled
         IN luhnLoop(digits, i - 1, sum + digit, ~isEven)

\* isValidCardNumber(cardNumber)
isValidCardNumber(cardNumber) ==
    LET digits == digitsOf(cardNumber)
    IN luhnLoop(digits, Len(digits), 0, FALSE) % 10 = 0

\* cardNumber.slice(-4)
lastFour(cardNumber) ==
    SubSeq(cardNumber, IF Len(cardNumber) > 4 THEN Len(cardNumber) - 3 ELSE 1,
           Len(cardNumber))

\* `delete object[key]`
delete(object, key) == [k \in DOMAIN object \ {key} |-> object[k]]

\* the value getMetadata falls back to
NoCardMetadata == [cards |-> <<>>, cardTransactions |-> <<>>]

\* getMetadata(user) of the card service: what the user object's metadata
\* call resolves with, or the empty default when it resolves with nothing
\* or throws (got is FALSE)
getCardMetadata(meta, user, got) ==
    IF got /\ meta[user] # <<>> THEN meta[user][1] ELSE NoCardMetadata

\* updateMetadata of the card service with the write going through even when
\* it reports a failure
updateCardMetadataThenFail(meta, user, newMetadata, ok) ==
    [meta EXCEPT ![user] = <<newMetadata>>]

\* updateMetadata(user, newMetadata) of the card service; a rejected write
\* (ok is FALSE) is caught and reported as `false`
updateCardMetadata(meta, user, newMetadata, ok) ==
    IF ok THEN [meta EXCEPT ![user] = <<newMetadata>>] ELSE meta

CardOutcome(m, r) == [m |-> m, r |-> r]

\* addDebitCard(user, cardData)
addDebitCard(meta, user, cardData, got, ok) ==
    LET metadata == getCardMetadata(meta, user, got)
        spread == [id |-> now,
                   lastFourDigits |-> lastFour(cardData.cardNumber),
                   cardNumber |-> cardData.cardNumber,
                   cardholderName |-> cardData.cardholderName,
                   expiryDate |-> cardData.expiryDate,
                   cvv |-> cardData.cvv]
        newCard == delete(spread, "cardNumber")
        cards == Append(metadata.cards, newCard)
        call == [Call("addDebitCard") EXCEPT
                     !.user = user, !.cardNumber = cardData.cardNumber]
    IN IF ~isValidCardNumber(cardData.cardNumber)
       THEN CardOutcome(meta, [call EXCEPT !.success = FALSE,
                                           !.error = "Invalid card number"])
       ELSE LET written == updateCardMetadata(meta, user,
                               [metadata EXCEPT !.cards = cards], ok)
            IN IF ok
               THEN CardOutcome(written, [call EXCEPT !.card = <<newCard>>])
               ELSE CardOutcome(written,
                                [call EXCEPT !.success = FALSE,
                                             !.persisted = FALSE,
                                             !.error = "Failed to add debit card"])

\* getDebitCards(user)
getDebitCards(meta, user, got) ==
    CardOutcome(meta, [Call("getDebitCards") EXCEPT
                           !.user = user,
                           !.result = getCardMetadata(meta, user, got).cards])

\* processCardPayment(user, cardId, amount, description) of the card service
processDebitCardPayment(meta, user, cardId, amount, description, got, ok) ==
    LET metadata == getCardMetadata(meta, user, got)
        cards == metadata.cards
        newTransaction == [id |-> now, cardId |-> cardId, amount |-> amount,
                           description |-> description, date |-> now,
                           status |-> "completed"]
        cardTransactions == Append(metadata.cardTransactions, newTransaction)
        call == [Call("cardService.processCardPayment") EXCEPT
                     !.user = user, !.cardId = cardId, !.amount = amount]
    IN IF ~\E i \in DOMAIN cards : cards[i].id = cardId
       THEN CardOutcome(meta, [call EXCEPT !.success = FALSE,
                                           !.error = "Card not found"])
       ELSE LET written == updateCardMetadata(meta, user,
                               [metadata EXCEPT
                                    !.cardTransactions = cardTransactions], ok)
            IN IF ok
               THEN CardOutcome(written,
                                [call EXCEPT !.result = <<newTransaction>>])
               ELSE CardOutcome(written,
                                [call EXCEPT !.success = FALSE,
                                             !.persisted = FALSE,
                                             !.error = "Failed to process payment"])

\* a call of the card service takes effect
CardCommit(o) ==
    /\ cardMetadata' = o.m
    /\ ret' = o.r
    /\ faults' = IF o.r.persisted THEN faults ELSE faults + 1
    /\ UNCHANGED <<impl, owners, now, defaultBankData, publicMetadata,
                   localStorage, events, reloads, ui>>

\* what the add-card form of the DebitCards page sends
CardData ==
    [cardNumber : CardNumbers, cardholderName : {"A"}, expiryDate : {"12/30"},
     cvv : Cvvs]

\* the stored cards and card transactions of user, empty when none
StoredCards(meta, user) ==
    IF meta[user] = <<>> THEN <<>> ELSE meta[user][1].cards
StoredCardTransactions(meta, user) ==
    IF meta[user] = <<>> THEN <<>> ELSE meta[user][1].cardTransactions

AddDebitCard ==
    \E user \in owners, cardData \in CardData, got \in BOOLEAN,
       ok \in WriteOutcomes :
        /\ Len(StoredCards(cardMetadata, user)) < MaxCards
        /\ CardCommit(addDebitCard(cardMetadata, user, cardData, got, ok))

GetDebitCards ==
    \E user \in owners, got \in BOOLEAN :
        CardCommit(getDebitCards(cardMetadata, user, got))

ProcessDebitCardPayment ==
    \E user \in owners, cardId \in AccountIds, amount \in 1..MaxAmount,
       description \in Descriptions, got \in BOOLEAN, ok \in WriteOutcomes :
        /\ Len(StoredCardTransactions(cardMetadata, user)) < MaxTransfers
        /\ CardCommit(processDebitCardPayment(cardMetadata, user, cardId,
                                              amount, description, got, ok))

\* ------------------------------------------------------------------ dialogs
\* what the user has typed into a dialog when its handler starts
FormInputs == [amount : Amounts, recipientEmail : {""} \cup Recipients]

\* the dialog named is the one open, or can be opened: no handler of another
\* dialog is still awaiting
CanUse(dialog) == ui.dialog = dialog \/ ui.pending = <<>>
Opened(dialog) == IF ui.dialog = dialog THEN ui
                  ELSE [NoDialog EXCEPT !.dialog = dialog]
Without(pending, i) ==
    SubSeq(pending, 1, i - 1) \o SubSeq(pending, i + 1, Len(pending))

\* a step of a handler of `dialog` that makes the service call with outcome
\* o after a payment step that ended as `payment`
Via(dialog, payment, o) ==
    [o EXCEPT !.r.dialog = dialog, !.r.payment = payment]
\* a step of a handler that makes no service call
NoCall(dialog, payment, error) ==
    Outcome(World, [Call("") EXCEPT !.dialog = dialog, !.payment = payment,
                                    !.error = error,
                                    !.success = (error = "")])

\* the test `if (stripeError)` with the throw taken wrongly never
stripeErrorIgnored(outcome) == FALSE

\* `if (stripeError) throw new Error(stripeError.message)`
stripeErrorThrown(outcome) == outcome = "failed"

\* CardPaymentForm.handleSubmit up to `await processCardPayment(...)`
CardPaymentFormSubmit ==
    \E input \in FormInputs :
        /\ CanUse("CardPaymentForm")
        /\ ~Opened("CardPaymentForm").loading
        /\ Len(Opened("CardPaymentForm").pending) < MaxInFlight
        /\ LET error == IF input.amount <= 0
                        THEN "Please enter a valid amount"
                        ELSE IF input.recipientEmail = ""
                        THEN "Please enter recipient email"
                        ELSE ""
           IN /\ ui' = IF error # ""
                       THEN [Opened("CardPaymentForm") EXCEPT !.error = error]
                       ELSE [Opened("CardPaymentForm") EXCEPT
                                !.loading = TRUE, !.error = "",
                                !.pending = Append(@, input)]
              /\ Commit(NoCall("CardPaymentForm", "", error))

\* CardPaymentForm.handleSubmit from the result of processCardPayment on:
\* transferMoney(user, {recipientEmail, amount, description,
\* paymentMethodId}).  The clerk build's transferMoney takes that object for
\* fromAccountId and finds no account.
CardPaymentFormResolve ==
    \E i \in DOMAIN ui.pending, user \in owners,
       paymentMethodId \in PaymentMethods, description \in Descriptions,
       ok \in WriteOutcomes :
        /\ ui.dialog = "CardPaymentForm"
        /\ Len(defaultBankData.transactions) < MaxTransfers
        /\ LET input == ui.pending[i]
               paymentResult ==
                   processCardPaymentMock(paymentMethodId, input.amount,
                                          input.recipientEmail)
               options == [fromAccountId |-> NoId, toAccountId |-> NoId,
                           recipientEmail |-> input.recipientEmail,
                           paymentMethodId |-> paymentMethodId]
               o == IF ~paymentResult.success
                    THEN NoCall("CardPaymentForm", "failed", "Payment failed")
                    ELSE Via("CardPaymentForm", "succeeded",
                             IF impl = "local"
                             THEN transferMoneyOptions(user, options,
                                      input.amount, description, ok)
                             ELSE transferMoneyPositional(user, NoId, NoId, 0,
                                      description, ok))
           IN /\ ui' = [ui EXCEPT !.loading = FALSE,
                                  !.error = IF o.r.success THEN @
                                            ELSE o.r.error,
                                  !.pending = Without(@, i)]
              /\ Commit(o)

\* TransferForm.handleSubmit up to `await stripe.createPaymentMethod(...)`
TransferFormSubmit ==
    \E input \in FormInputs :
        /\ impl = "local"
        /\ CanUse("TransferForm")
        /\ ~Opened("TransferForm").loading
        /\ Len(Opened("TransferForm").pending) < MaxInFlight
        /\ LET error == IF input.amount <= 0
                        THEN "Please enter a valid amount"
                        ELSE IF input.recipientEmail = ""
                        THEN "Please enter recipient email"
                        ELSE ""
           IN /\ ui' = IF error # ""
                       THEN [Opened("TransferForm") EXCEPT
                                !.loading = FALSE, !.error = error]
                       ELSE [Opened("TransferForm") EXCEPT
                                !.loading = TRUE, !.error = "",
                                !.pending = Append(@, input)]
              /\ Commit(NoCall("TransferForm", "", error))

\* TransferForm.handleSubmit from the result of stripe.createPaymentMethod,
\* which the card may fail, on: processCardPayment(user.id, {...})
TransferFormResolve ==
    \E i \in DOMAIN ui.pending, user \in owners,
       outcome \in {"succeeded", "failed"}, description \in Descriptions,
       ok \in WriteOutcomes :
        /\ ui.dialog = "TransferForm"
        /\ \A k \in StorageKeys : localStorage[k] # <<>> =>
               Len(localStorage[k][1].transactions) < MaxTransfers
        /\ Len(defaultBankData.transactions) < MaxTransfers
        /\ LET input == ui.pending[i]
               o == IF stripeErrorThrown(outcome)
                    THEN NoCall("TransferForm", outcome,
                                "Your card was declined.")
                    ELSE Via("TransferForm", outcome,
                             processCardPayment(World, user, input.amount,
                                                description, ok))
           IN /\ ui' = [ui EXCEPT !.loading = FALSE,
                                  !.error = IF o.r.success THEN @
                                            ELSE o.r.error,
                                  !.pending = Without(@, i)]
              /\ Commit(o)

\* TransferForm.handleSubmit with 'Bank Account' chosen as transfer method:
\* validateForm, no branch for the method, and the finally block.  The run
\* has no await.
TransferFormSubmitBank ==
    \E input \in FormInputs :
        /\ impl = "local"
        /\ CanUse("TransferForm")
        /\ ~Opened("TransferForm").loading
        /\ LET error == IF input.amount <= 0
                        THEN "Please enter a valid amount"
                        ELSE IF input.recipientEmail = ""
                        THEN "Please enter recipient email"
                        ELSE ""
               o == NoCall("TransferForm", "bank", error)
           IN /\ ui' = [Opened("TransferForm") EXCEPT
                            !.loading = FALSE, !.error = error]
              /\ Commit([o EXCEPT !.r.amount = input.amount,
                                  !.r.recipientEmail = input.recipientEmail])

\* what the transfer dialog of the accounts page holds when Transfer is
\* clicked; NoId and 0 stand for a field left empty
TransferData ==
    [fromAccount : AccountIds \cup {NoId}, toAccount : AccountIds \cup {NoId},
     amount : Amounts]

\* BankAccounts.handleTransfer up to `await transferMoney(...)`.  The
\* Transfer button has no disabled prop and the page keeps no loading flag,
\* so the handler can start while an earlier run is still awaiting.
BankAccountsTransferSubmit ==
    \E transferData \in TransferData :
        /\ CanUse("BankAccounts")
        /\ Len(Opened("BankAccounts").pending) < MaxInFlight
        /\ LET error == IF \/ transferData.fromAccount = NoId
                           \/ transferData.toAccount = NoId
                           \/ transferData.amount = 0
                        THEN "Please fill all required fields"
                        ELSE IF transferData.amount <= 0
                        THEN "Please enter a valid amount"
                        ELSE ""
           IN /\ ui' = IF error # ""
                       THEN [Opened("BankAccounts") EXCEPT !.error = error]
                       ELSE [Opened("BankAccounts") EXCEPT
                                !.pending = Append(@, transferData)]
              /\ Commit(NoCall("BankAccounts", "", error))

\* BankAccounts.handleTransfer from the result of transferMoney(user,
\* fromAccount, toAccount, amount, description) on, with loadAccounts() after
\* a success.  The local build's transferMoney takes fromAccount for its
\* options object and finds no amount in it.
BankAccountsTransferResolve ==
    \E i \in DOMAIN ui.pending, user \in owners, description \in Descriptions,
       ok \in WriteOutcomes :
        /\ ui.dialog = "BankAccounts"
        /\ Len(defaultBankData.transactions) < 2 * MaxTransfers
        /\ LET transferData == ui.pending[i]
               o == IF impl = "clerk"
                    THEN transferMoneyPositional(user, transferData.fromAccount,
                             transferData.toAccount, transferData.amount,
                             description, ok)
                    ELSE transferMoneyOptions(user,
                             [fromAccountId |-> NoId, toAccountId |-> NoId,
                              recipientEmail |-> "", paymentMethodId |-> ""],
                             0, description, ok)
               loaded == IF o.r.success
                         THEN Outcome(getBankAccounts(o.w, user, ok).w, o.r)
                         ELSE o
           IN /\ ui' = [ui EXCEPT !.error = IF o.r.success THEN ""
                                            ELSE o.r.error,
                                  !.pending = Without(@, i)]
              /\ Commit(Via("BankAccounts", "", loaded))

\* getBankingData resolving with a copy of the data its write sent
getBankingDataCopy(w, sent) == sent

\* what `await getBankingData(user)` resolves with in the clerk build:
\* defaultBankData itself, as it is when the await ends, whatever the write
\* of getMetadata had sent
getBankingData(w, sent) == w.d

\* BankAccounts.handleTransfer with the clerk build up to the await inside
\* getMetadata: `sent` is the bankData that user.update is called with
BankAccountsTransferCall ==
    \E transferData \in TransferData :
        /\ impl = "clerk"
        /\ CanUse("BankAccounts")
        /\ Len(Opened("BankAccounts").pending) < MaxInFlight
        /\ LET error == IF \/ transferData.fromAccount = NoId
                           \/ transferData.toAccount = NoId
                           \/ transferData.amount = 0
                        THEN "Please fill all required fields"
                        ELSE IF transferData.amount <= 0
                        THEN "Please enter a valid amount"
                        ELSE ""
               call == [fromAccount |-> transferData.fromAccount,
                        toAccount |-> transferData.toAccount,
                        amount |-> transferData.amount,
                        awaiting |-> "getBankingData",
                        sent |-> defaultBankData]
           IN /\ ui' = IF error # ""
                       THEN [Opened("BankAccounts") EXCEPT !.error = error]
                       ELSE [Opened("BankAccounts") EXCEPT
                                !.pending = Append(@, call)]
              /\ Commit(NoCall("BankAccounts", "", error))

\* transferMoney of the clerk build from the end of `await
\* getBankingData(user)` to its next await or return: the write of
\* getMetadata has been accepted or rejected, the accounts are looked up,
\* the funds checked, the balances and the log updated on the object
\* getBankingData resolved with, and saveBankingData is called with it.  A
\* refused transfer returns here, and handleTransfer shows its error.
BankAccountsTransferBalances ==
    \E i \in DOMAIN ui.pending, user \in owners, description \in Descriptions,
       ok \in WriteOutcomes :
        /\ impl = "clerk"
        /\ ui.dialog = "BankAccounts"
        /\ ui.pending[i].awaiting = "getBankingData"
        /\ Len(defaultBankData.transactions) < 2 * MaxTransfers
        /\ LET call == ui.pending[i]
               w0 == userUpdate(World, user, call.sent, ok)
               w1 == [w0 EXCEPT !.d = getBankingData(w0, call.sent)]
               o == transferMoneyBalances(w1, user, call.fromAccount,
                        call.toAccount, call.amount, description, ok)
           IN /\ ui' = IF o.r.success
                       THEN [ui EXCEPT
                                !.pending[i].awaiting = "saveBankingData",
                                !.pending[i].sent = o.w.d]
                       ELSE [ui EXCEPT !.error = o.r.error,
                                       !.pending = Without(@, i)]
              /\ Commit(Via("BankAccounts",
                            IF o.r.success THEN "saveBankingData" ELSE "",
                            o))

\* transferMoney of the clerk build from the end of `await
\* saveBankingData(user, data)` on: the write has been accepted or rejected,
\* success is returned, and handleTransfer calls loadAccounts() and closes
\* the dialog.
BankAccountsTransferReturn ==
    \E i \in DOMAIN ui.pending, user \in owners, ok \in WriteOutcomes :
        /\ impl = "clerk"
        /\ ui.dialog = "BankAccounts"
        /\ ui.pending[i].awaiting = "saveBankingData"
        /\ LET call == ui.pending[i]
               w1 == userUpdate(World, user, call.sent, ok)
               r == [Call("transferMoney") EXCEPT
                        !.user = user, !.fromAccountId = call.fromAccount,
                        !.toAccountId = call.toAccount,
                        !.amount = call.amount, !.persisted = ok]
               loaded == Outcome(getBankAccounts(w1, user, ok).w, r)
           IN /\ ui' = [ui EXCEPT !.error = "",
                                  !.pending = Without(@, i)]
              /\ Commit(Via("BankAccounts", "", loaded))

\* the Dashboard as mounted for the signed-in user: loading starts as true;
\* pending holds, for every loadDashboardData that awaits, what its
\* getAccountSummary read; seeded counts the saves of generated transactions
\* and updates the bankDataUpdated events received from elsewhere
DashboardPage(user) ==
    [dialog |-> "Dashboard", loading |-> TRUE, error |-> "", pending |-> <<>>,
     user |-> user, seeded |-> 0, updates |-> 0]

\* loadDashboardData() up to the await inside getAccountSummary(userId).
\* getSpendingAnalytics(userId), called next to it, has no await and
\* writes nothing.
loadDashboardData(page, w) ==
    LET userId == page.user
        aliased == w.ls[StorageKey(userId)] = <<>>
        read == [aliased |-> aliased,
                 data |-> IF aliased THEN <<>>
                          ELSE <<getLocalStorageData(w, userId)>>]
    IN [page EXCEPT !.loading = TRUE, !.error = "",
                    !.pending = Append(@, read)]

\* the effect `if (user) loadDashboardData()` when the Dashboard mounts
DashboardMount ==
    \E user \in owners :
        /\ impl = "local"
        /\ ui = NoDialog
        /\ ui' = loadDashboardData(DashboardPage(user), World)
        /\ Commit(NoCall("Dashboard", "mount", ""))

\* handleDataUpdate(event) for a bankDataUpdated event dispatched by a save
\* made elsewhere in the window that left the item as it was
DashboardHandleDataUpdate ==
    \E userId \in Users :
        /\ ui.dialog = "Dashboard"
        /\ ui.updates < MaxUpdates
        /\ ui' = [IF handleDataUpdate(userId, ui.user)
                  THEN loadDashboardData(ui, World) ELSE ui
                     EXCEPT !.updates = @ + 1]
        /\ Commit(NoCall("Dashboard", "event", ""))

\* loadDashboardData() from the end of the await inside getAccountSummary
\* on.  The event a seeding save dispatches is handled inside the save:
\* handleDataUpdate starts the next loadDashboardData before this one goes
\* on to its finally block.
DashboardLoadResolve ==
    \E i \in DOMAIN ui.pending, ok \in WriteOutcomes :
        /\ ui.dialog = "Dashboard"
        /\ LET read == ui.pending[i]
               data == IF read.aliased THEN defaultBankData ELSE read.data[1]
           IN \E mock \in IF data.transactions = <<>> THEN MockLists
                           ELSE {<<>>} :
                  LET o == getAccountSummaryResume(World, ui.user, data,
                                                   read.aliased, mock, ok)
                      rest == [ui EXCEPT !.pending = Without(@, i)]
                      next == IF loadsStarted(o.w.dispatched, ui.user) > 0
                              THEN loadDashboardData(rest, o.w)
                              ELSE rest
                  IN /\ ui' = [next EXCEPT
                                  !.loading = FALSE,
                                  !.error = IF o.r.success THEN @
                                            ELSE o.r.error,
                                  !.seeded = @ + Len(o.w.dispatched)]
                     /\ Commit(Via("Dashboard", "", o))

\* what was persisted before the Dashboard is opened
PersistBeforeMount ==
    /\ ui = NoDialog
    /\ \/ AddBankAccount
       \/ AddTransaction

\* one owner uses the page
Init ==
    /\ owners = {"u1"}
    /\ InitData

\* two owners sign in, one after the other, on the same page
InitTwoOwners ==
    /\ owners = Users
    /\ InitData

Next ==
    \/ Tick
    \/ Reload
    \/ AddBankAccount
    \/ GetAccountBalance
    \/ TransferMoneyPositional
    \/ TransferMoneyOptions
    \/ TransferMoneyBetweenUsers

Spec == Init /\ [][Next]_vars

SpecTwoOwners == InitTwoOwners /\ [][Next]_vars

\* the ledger operations alone, with room for one more account
NextLedger ==
    \/ Tick
    \/ AddFurtherBankAccount
    \/ TransferMoneyPositional
    \/ TransferMoneyOptions

SpecLedger == Init /\ [][NextLedger]_vars

\* the two card dialogs
NextCardDialogs ==
    \/ Tick
    \/ Reload
    \/ CardPaymentFormSubmit
    \/ CardPaymentFormResolve
    \/ TransferFormSubmit
    \/ TransferFormResolve

SpecCardDialogs == Init /\ [][NextCardDialogs]_vars

\* the transfer form with either transfer method
NextTransferForm ==
    \/ Tick
    \/ TransferFormSubmit
    \/ TransferFormResolve
    \/ TransferFormSubmitBank

SpecTransferForm == Init /\ [][NextTransferForm]_vars

\* transfers of the accounts page that overlap at their awaits
NextOverlap ==
    \/ Tick
    \/ AddBankAccount
    \/ BankAccountsTransferCall
    \/ BankAccountsTransferBalances
    \/ BankAccountsTransferReturn

SpecOverlap == Init /\ [][NextOverlap]_vars

\* the Dashboard, opened on what was persisted before, and the events it
\* receives
NextRefresh ==
    \/ PersistBeforeMount
    \/ DashboardMount
    \/ DashboardHandleDataUpdate
    \/ DashboardLoadResolve

SpecRefresh == Init /\ [][NextRefresh]_vars

\* every await of a load ends: simulateApiCall resolves after its timeout
SpecRefreshFair == SpecRefresh /\ WF_vars(DashboardLoadResolve)

\* the operations that write the stored log, and the reads of the accounts
NextStore ==
    \/ Tick
    \/ Reload
    \/ AddTransaction
    \/ ProcessCardPayment
    \/ TransferMoneyExternal
    \/ GetBankAccounts
    \/ GetAccountDetails
    \/ GetAccountBalance

SpecStore == Init /\ [][NextStore]_vars

\* the reads of the transaction log, between additions to it
NextReads ==
    \/ Tick
    \/ AddTransaction
    \/ GetRecentTransactions
    \/ GetBankAccounts

SpecReads == Init /\ [][NextReads]_vars

\* the projections of the log, between additions to it and reloads
NextProjections ==
    \/ Tick
    \/ Reload
    \/ AddTransaction
    \/ ProcessCardPayment
    \/ GetAccountSummary
    \/ GetSpendingAnalytics
    \/ GetAccountBalance

SpecProjections == Init /\ [][NextProjections]_vars

\* every operation that works on the accounts or the log, and the reads
NextBalances ==
    \/ Tick
    \/ AddBankAccount
    \/ TransferMoneyPositional
    \/ TransferMoneyOptions
    \/ AddTransaction
    \/ ProcessCardPayment
    \/ GetBankAccounts

SpecBalances == Init /\ [][NextBalances]_vars

\* the mutations of the localStorage-backed service
NextEvents ==
    \/ Tick
    \/ AddBankAccount
    \/ TransferMoneyExternal
    \/ AddTransaction
    \/ TransactionsHandleAddTransaction
    \/ ProcessCardPayment

SpecEvents == Init /\ [][NextEvents]_vars

\* the dialogs that move money, on a page with accounts
NextDialogs ==
    \/ Tick
    \/ AddBankAccount
    \/ CardPaymentFormSubmit
    \/ CardPaymentFormResolve
    \/ TransferFormSubmit
    \/ TransferFormResolve
    \/ BankAccountsTransferSubmit
    \/ BankAccountsTransferResolve

SpecDialogs == Init /\ [][NextDialogs]_vars

\* the card service
NextCards ==
    \/ Tick
    \/ AddDebitCard
    \/ GetDebitCards
    \/ ProcessDebitCardPayment

SpecCards == Init /\ [][NextCards]_vars

\* the reads of the log, from a store never written to onward
NextRecovery ==
    \/ Tick
    \/ Reload
    \/ AddTransaction
    \/ GetAccountBalance
    \/ GetSpendingAnalytics
    \/ GetRecentTransactions
    \/ GetAccountSummary
    \/ GetAccountTransactions

SpecRecovery == Init /\ [][NextRecovery]_vars

\* the options-based transferMoney with every combination of options
NextDispatch ==
    \/ Tick
    \/ AddBankAccount
    \/ TransferMoneyAnyOptions

SpecDispatch == Init /\ [][NextDispatch]_vars

\* two owners, one after the other, open accounts, transfer and read
NextOwners ==
    \/ Tick
    \/ AddBankAccount
    \/ TransferMoneyExternal
    \/ GetBankAccounts

SpecOwners == InitTwoOwners /\ [][NextOwners]_vars
\* ------------------------------------------------------------------ claims
\* what a reader of the service is given: the accounts and transactions of
\* the object getMetadata returns
Accounts == defaultBankData.accounts
Transactions == defaultBankData.transactions

\* the balance a lookup by id reports (the first account with that id)
BalanceOf(accounts, id) ==
    LET matching == {i \in DOMAIN accounts : accounts[i].id = id}
    IN accounts[CHOOSE i \in matching : \A j \in matching : i <= j].balance

RECURSIVE SumBalances(_)
SumBalances(accounts) ==
    IF accounts = <<>> THEN 0
    ELSE Head(accounts).balance + SumBalances(Tail(accounts))

\* the records a call added to a log, at its tail (push) or head (unshift)
Added(old, new) ==
    IF Len(new) < Len(old) THEN <<>>
    ELSE IF SubSeq(new, 1, Len(old)) = old
    THEN SubSeq(new, Len(old) + 1, Len(new))
    ELSE SubSeq(new, 1, Len(new) - Len(old))

\* the call r went down the internal-transfer path of transferMoney
InternalCall(r) ==
    /\ r.op = "transferMoney"
    /\ r.fromAccountId # NoId
    /\ r.toAccountId # NoId
    /\ ~(r.paymentMethodId # "" /\ r.recipientEmail # "")

ExternalCall(r) ==
    /\ r.op = "transferMoney"
    /\ ~InternalCall(r)
    /\ r.recipientEmail # ""
    /\ r.paymentMethodId = ""

CardCall(r) ==
    /\ r.op = "transferMoney"
    /\ r.recipientEmail # ""
    /\ r.paymentMethodId # ""

LedgerUnchanged ==
    /\ defaultBankData'.accounts = defaultBankData.accounts
    /\ defaultBankData'.transactions = defaultBankData.transactions

\* C1: a successful internal transfer between existing accounts A and B, in
\* either build, leaves balance(A) + balance(B) as it was, and no
\* transferMoney call, successful or not, changes the sum of all balances.
C1_ConservationStep ==
    /\ (InternalCall(ret') /\ ret'.success) =>
           BalanceOf(Accounts', ret'.fromAccountId)
             + BalanceOf(Accounts', ret'.toAccountId)
           = BalanceOf(Accounts, ret'.fromAccountId)
             + BalanceOf(Accounts, ret'.toAccountId)
    /\ ret'.op = "transferMoney" =>
           SumBalances(Accounts') = SumBalances(Accounts)

C1_Conservation == [][C1_ConservationStep]_vars

\* C1 witness: a successful transfer of a positive amount between two
\* different accounts has moved money
C1_Witness ==
    /\ InternalCall(ret)
    /\ ret.success
    /\ ret.amount > 0
    /\ ret.fromAccountId # ret.toAccountId
    /\ \E i \in DOMAIN Accounts : Accounts[i].balance > Accounts[i].opening

\* C2: an internal transfer rejected for insufficient funds returns the
\* failure 'Insufficient funds' and leaves the balances, the in-memory log
\* and the persisted blob exactly as they were (the read writes nothing).
C2_RejectedTransferWritesNothing ==
    [][(InternalCall(ret') /\ ret'.error = "Insufficient funds") =>
           /\ ~ret'.success
           /\ LedgerUnchanged
           /\ publicMetadata' = publicMetadata
           /\ localStorage' = localStorage]_vars

\* C3: from accounts opened with balances >= 0, no transferMoney sequence
\* ever makes a balance negative.
C3_NoNegativeBalance ==
    \A i \in DOMAIN Accounts : Accounts[i].balance >= 0

\* C4: every successful internal transfer of a from A to B (two accounts)
\* takes a from A, gives a to B and adds exactly two records, a debit and a
\* credit of amount a with one correlation id, in both builds (stated here
\* for a > 0 and an accepting store).
C4_TransferRecordsDebitAndCredit ==
    [][(InternalCall(ret') /\ ret'.success /\ ret'.persisted
            /\ ret'.amount > 0
            /\ ret'.fromAccountId # ret'.toAccountId) =>
           LET added == Added(Transactions, Transactions')
           IN /\ BalanceOf(Accounts', ret'.fromAccountId)
                    = BalanceOf(Accounts, ret'.fromAccountId) - ret'.amount
              /\ BalanceOf(Accounts', ret'.toAccountId)
                    = BalanceOf(Accounts, ret'.toAccountId) + ret'.amount
              /\ Len(added) = 2
              /\ {added[i].type : i \in DOMAIN added} = {"debit", "credit"}
              /\ \A i \in DOMAIN added : added[i].amount = ret'.amount
              /\ \A i, j \in DOMAIN added :
                     /\ added[i].id.prefix = added[j].id.prefix
                     /\ added[i].id.ts = added[j].id.ts]_vars

\* C5: when the store rejects the write of a transfer, transferMoney
\* returns a failure with an error message and no balance change or new
\* transaction is visible to a later read.
C5_FailedWriteIsAllOrNothing ==
    [][(ret'.op = "transferMoney" /\ ~ret'.persisted) =>
           /\ ~ret'.success
           /\ ret'.error # ""
           /\ LedgerUnchanged]_vars

\* the amounts of the logged internal transfers out of / into account id
RECURSIVE TransferredOut(_, _)
TransferredOut(transactions, id) ==
    IF transactions = <<>> THEN 0
    ELSE (IF /\ Head(transactions).type \in {"debit", "transfer"}
             /\ Head(transactions).fromAccount = id
          THEN Head(transactions).amount ELSE 0)
         + TransferredOut(Tail(transactions), id)

RECURSIVE TransferredIn(_, _)
TransferredIn(transactions, id) ==
    IF transactions = <<>> THEN 0
    ELSE (IF /\ Head(transactions).type \in {"credit", "transfer"}
             /\ Head(transactions).toAccount = id
          THEN Head(transactions).amount ELSE 0)
         + TransferredIn(Tail(transactions), id)

LedgerConsistent(data) ==
    \A i \in DOMAIN data.accounts :
        data.accounts[i].balance =
            data.accounts[i].opening
              - TransferredOut(data.transactions, data.accounts[i].id)
              + TransferredIn(data.transactions, data.accounts[i].id)

\* C6: in every state another operation can run in, in memory and in every
\* persisted snapshot, each account's balance is its balance at creation
\* minus the logged transfers out of it plus the logged transfers into it.
C6_LedgerConsistency ==
    /\ LedgerConsistent(defaultBankData)
    /\ \A u \in Users :
           /\ publicMetadata[u] # <<>> => LedgerConsistent(publicMetadata[u][1])
           /\ localStorage[u] # <<>> => LedgerConsistent(localStorage[u][1])

\* C7: every transfer entry point rejects an amount that is zero or
\* negative with a failure result and changes no balance and no log.
C7_NonPositiveAmountRejected ==
    [][(ret'.op \in {"transferMoney", "transferMoneyBetweenUsers"}
            /\ ret'.amount <= 0) =>
           /\ ~ret'.success
           /\ LedgerUnchanged]_vars

\* C8: an internal transfer from an account to itself is rejected with a
\* failure result, changes no balance and records no transaction (stated
\* here for the calls with a positive amount and an accepting store).
C8_SameAccountRejected ==
    [][(InternalCall(ret') /\ ret'.fromAccountId = ret'.toAccountId
            /\ ret'.amount > 0 /\ ret'.persisted) =>
           /\ ~ret'.success
           /\ LedgerUnchanged]_vars

\* C9: a successful external transfer of a > 0 to recipient r adds exactly
\* one record, of kind external transfer, naming r, whose stored amount is
\* the magnitude a (stated here for the calls whose write is accepted).
C9_ExternalTransferRecord ==
    [][((ExternalCall(ret') \/ ret'.op = "transferMoneyBetweenUsers")
            /\ ret'.success /\ ret'.amount > 0 /\ ret'.persisted) =>
           LET added == Added(Transactions, Transactions')
           IN /\ Len(added) = 1
              /\ added[1].type = "external_transfer"
              /\ \E k \in DOMAIN added[1].description :
                     added[1].description[k] = ret'.recipientEmail
              /\ added[1].amount = ret'.amount]_vars

\* base + credits - every other record, written without the reduce
PoolBalance(transactions) ==
    LET Amount(i) == transactions[i].amount
        RECURSIVE Sum(_)
        Sum(I) == IF I = {} THEN 0
                  ELSE LET i == CHOOSE x \in I : TRUE
                       IN Amount(i) + Sum(I \ {i})
        credits == {i \in DOMAIN transactions : transactions[i].type = "credit"}
    IN BaseBalance + Sum(credits) - Sum(DOMAIN transactions \ credits)

\* C10: getAccountBalance returns 1000 plus the credits minus the debits of
\* the log; so a successful external or card-payment transfer of a > 0
\* lowers it by a and an internal transfer leaves it as it was (stated here
\* for the calls whose write is accepted).
C10_PoolBalanceFold ==
    [][/\ ret'.op = "getAccountBalance" =>
              ret'.balance = PoolBalance(Transactions')
       /\ (ret'.op = "transferMoney" /\ ret'.success /\ ret'.amount > 0
               /\ ret'.persisted) =>
              IF ExternalCall(ret') \/ CardCall(ret')
              THEN PoolBalance(Transactions')
                       = PoolBalance(Transactions) - ret'.amount
              ELSE PoolBalance(Transactions') = PoolBalance(Transactions)]_vars

\* nothing of the ledger is written: neither the in-memory data nor a store
NothingWritten ==
    /\ LedgerUnchanged
    /\ publicMetadata' = publicMetadata
    /\ localStorage' = localStorage

\* C11: a step of a card dialog writes to the ledger only when the payment
\* step has reported success in that step; when the payment step fails,
\* nothing is recorded, the log is as it was and the dialog shows the error.
C11_CardRecordAfterPayment ==
    [][ret'.dialog \in {"CardPaymentForm", "TransferForm"} =>
           /\ ret'.payment # "succeeded" => NothingWritten
           /\ ret'.payment = "failed" =>
                  /\ ui'.error # ""
                  /\ ret'.dispatched = <<>>]_vars

\* C11 witness: a card was declined with the error on show, after an earlier
\* payment of the same owner had been recorded
C11_Witness ==
    /\ ret.dialog = "TransferForm"
    /\ ret.payment = "failed"
    /\ ui.error = "Your card was declined."
    /\ \E k \in StorageKeys :
           /\ localStorage[k] # <<>>
           /\ \E j \in DOMAIN localStorage[k][1].transactions :
                  localStorage[k][1].transactions[j].paymentMethod = "card"

\* the stored transaction list under key k, empty when there is no item
Stored(ls, k) == IF ls[k] = <<>> THEN <<>> ELSE ls[k][1].transactions

\* C12: a transaction once in an owner's persisted list is still there,
\* unmodified, after any later service operation, reads included.
C12_AppendOnlyLog ==
    [][\A k \in StorageKeys :
           \A j \in DOMAIN Stored(localStorage, k) :
               \E i \in DOMAIN Stored(localStorage', k) :
                   Stored(localStorage', k)[i] = Stored(localStorage, k)[j]]_vars

\* what owner B is given by the reads of the service in the world w
ReadsOf(w, B) ==
    [accounts |-> getBankAccounts(w, B, TRUE).r.result,
     transactions |-> getMetadata(w, B, TRUE).d.transactions,
     balance |-> balanceFold(BaseBalance,
                             getMetadata(w, B, TRUE).d.transactions)]

\* C13: getBankAccounts(B) returns, in insertion order, accounts created for
\* B only, and an addBankAccount or transferMoney call made for owner A
\* leaves what every other owner B reads (accounts, transactions, pool
\* balance) as it was (stated here for the calls whose write is accepted).
C13_OwnerIsolation ==
    [][/\ ret'.op = "getBankAccounts" =>
              /\ ret'.persisted =>
                     \A i \in DOMAIN ret'.result :
                         ret'.result[i].creator = ret'.user
              /\ \A i, j \in DOMAIN ret'.result :
                     i < j => ret'.result[i].createdAt <= ret'.result[j].createdAt
       /\ (ret'.op \in {"addBankAccount", "transferMoney"} /\ ret'.persisted) =>
              \A B \in owners \ {ret'.user} :
                  ReadsOf(World', B) = ReadsOf(World, B)]_vars

\* the pages first..last of the owner's log, fetched one after the other
\* from the world w with nothing in between
RECURSIVE AllPages(_, _, _, _, _)
AllPages(w, userId, first, last, limit) ==
    IF first > last THEN <<>>
    ELSE LET o == getRecentTransactions(w, userId, first, limit, <<>>, TRUE)
         IN o.r.result \o AllPages(o.w, userId, first + 1, last, limit)

Count(seq, e) == Cardinality({i \in DOMAIN seq : seq[i] = e})
SameItems(a, b) ==
    /\ Len(a) = Len(b)
    /\ \A i \in DOMAIN a : Count(a, a[i]) = Count(b, a[i])

\* C14: after a successful getRecentTransactions(userId, page, limit), the
\* pages 1..totalPages fetched with that limit and nothing in between hold,
\* together, every stored transaction of the owner exactly once, totalCount
\* items in all.
C14_PaginationComplete ==
    [][(ret'.op = "getRecentTransactions" /\ ret'.success) =>
           LET all == AllPages(World', ret'.user, 1, ret'.totalPages,
                               ret'.limit)
               stored == getLocalStorageData(World', ret'.user).transactions
           IN /\ SameItems(all, stored)
              /\ Len(all) = ret'.totalCount
              /\ ret'.result = slice(all, (ret'.page - 1) * ret'.limit,
                                     ret'.page * ret'.limit)]_vars

\* C14 witness: a log of several records has been read in pages smaller
\* than the log
C14_Witness ==
    /\ ret.op = "getRecentTransactions"
    /\ ret.success
    /\ ret.totalPages >= 2
    /\ ret.page = 2
    /\ ret.result # <<>>

\* the part of a call's return value that its caller sees
Returned(r) ==
    [success |-> r.success, error |-> r.error, result |-> r.result,
     totalCount |-> r.totalCount, totalPages |-> r.totalPages]

\* the step repeats the previous call: same read, same owner, same arguments
SameReadAgain ==
    /\ ret.op \in {"getBankAccounts", "getRecentTransactions"}
    /\ ret'.op = ret.op
    /\ ret'.user = ret.user
    /\ ret'.page = ret.page
    /\ ret'.limit = ret.limit

\* C15: getBankAccounts called twice, or getRecentTransactions called twice
\* with the same page and limit, with no other call in between, return the
\* same value to the caller both times.
C15_IdempotentRead ==
    [][SameReadAgain => Returned(ret') = Returned(ret)]_vars

\* the accounts and transactions persisted under key k, both empty when
\* there is no item
StoredData(ls, k) ==
    IF ls[k] = <<>> THEN [accounts |-> <<>>, transactions |-> <<>>]
    ELSE [accounts |-> ls[k][1].accounts,
          transactions |-> ls[k][1].transactions]

\* C16: getAccountSummary, getSpendingAnalytics and getAccountBalance leave
\* the persisted accounts and transactions of the owner they are called for
\* as they were before the call.
C16_ProjectorsReadOnly ==
    [][ret'.op \in {"getAccountSummary", "getSpendingAnalytics",
                    "getAccountBalance"} =>
           StoredData(localStorage', StorageKey(ret'.user))
               = StoredData(localStorage, StorageKey(ret'.user))]_vars

\* the transaction types that take money out of the owner's pool
DebitTypes == {"debit", "expense"}

\* the sum of the amounts of the debit transactions of category c
RECURSIVE DebitSum(_, _)
DebitSum(transactions, c) ==
    IF transactions = <<>> THEN 0
    ELSE (IF /\ Head(transactions).type \in DebitTypes
             /\ Head(transactions).category = c
          THEN Head(transactions).amount ELSE 0)
         + DebitSum(Tail(transactions), c)

\* C20: the spendingByCategory that getSpendingAnalytics returns has no
\* category twice, has an entry for every category of the owner's debit
\* transactions, and every entry's amount is the sum of the amounts of the
\* debit transactions of its category, credit and income records left out.
C20_SpendingByCategory ==
    [][ret'.op = "getSpendingAnalytics" =>
           LET log == getLocalStorageData(World', ret'.user).transactions
               entries == ret'.result
           IN /\ \A i, j \in DOMAIN entries :
                     i # j => entries[i].category # entries[j].category
              /\ \A t \in DOMAIN log :
                     log[t].type \in DebitTypes =>
                         \E i \in DOMAIN entries :
                             entries[i].category = log[t].category
              /\ \A i \in DOMAIN entries :
                     entries[i].amount = DebitSum(log, entries[i].category)]_vars

\* the step is a call of the service (the clock and the page stay put)
ServiceCall == now' = now /\ reloads' = reloads

OwnerOf(userId) ==
    IF userId \in Users THEN userId
    ELSE CHOOSE u \in Users : UserObject[u] = userId

Mutations == {"addBankAccount", "addTransaction", "transferMoney",
              "processCardPayment"}

\* C18: in the local build every successful addBankAccount, addTransaction,
\* transferMoney or processCardPayment dispatches a bankDataUpdated event
\* whose detail.userId is the id of the owner it was made for, and a
\* Dashboard mounted for user u starts one load for every dispatched event
\* whose userId is u's id and none for any other event.
C18_ChangeNotification ==
    [][(impl = "local" /\ ServiceCall /\ ret'.op \in Mutations) =>
           /\ ret'.success =>
                  \E i \in DOMAIN ret'.dispatched :
                      ret'.dispatched[i] = OwnerOf(ret'.user)
           /\ \A u \in Users :
                  ret'.loads[u] = Cardinality({i \in DOMAIN ret'.dispatched :
                                                  ret'.dispatched[i] = u})]_vars

\* C19: in every dialog that moves money the submit action is disabled from
\* the start of a submission until its service call has resolved, so no
\* dialog ever has more than one submission awaiting its service call.
C19_SingleSubmission ==
    /\ Len(ui.pending) <= 1
    /\ ui.pending # <<>> => ui.loading

\* C21: no card that addDebitCard stores or returns holds the full card
\* number or the CVV.
C21_NoCardSecrets ==
    /\ \A u \in Users : \A i \in DOMAIN StoredCards(cardMetadata, u) :
           /\ "cardNumber" \notin DOMAIN StoredCards(cardMetadata, u)[i]
           /\ "cvv" \notin DOMAIN StoredCards(cardMetadata, u)[i]
    /\ ret.op = "addDebitCard" =>
           \A i \in DOMAIN ret.card :
               /\ "cardNumber" \notin DOMAIN ret.card[i]
               /\ "cvv" \notin DOMAIN ret.card[i]

\* twice a digit, its two decimal digits added up
LuhnDouble(d) == ((2 * d) \div 10) + ((2 * d) % 10)

\* the Luhn checksum of a string of digits: the digits on the even places,
\* counted from the right, are doubled
RECURSIVE LuhnSum(_, _)
LuhnSum(number, place) ==
    IF place > Len(number) THEN 0
    ELSE LET d == number[Len(number) - place + 1]
         IN (IF place % 2 = 0 THEN LuhnDouble(d) ELSE d)
            + LuhnSum(number, place + 1)

\* a non-empty string of digits with a valid Luhn checksum
LuhnValid(cardNumber) ==
    /\ cardNumber # <<>>
    /\ \A i \in DOMAIN cardNumber : cardNumber[i] \in Digits
    /\ LuhnSum(cardNumber, 1) % 10 = 0

\* C26: addDebitCard changes the stored card list only for a cardNumber that
\* is a non-empty digit string with a valid Luhn checksum; for every other
\* cardNumber it returns the failure 'Invalid card number' and leaves the
\* stored card list as it was.
C26_LuhnGate ==
    [][ret'.op = "addDebitCard" =>
           IF LuhnValid(ret'.cardNumber)
           THEN ret'.error # "Invalid card number"
           ELSE /\ ~ret'.success
                /\ ret'.error = "Invalid card number"
                /\ cardMetadata' = cardMetadata]_vars

\* C27: processCardPayment(user, cardId, amount, description) of the card
\* service fails with 'Card not found' when cardId is not the id of a stored
\* card of the user and with 'Failed to process payment' when the metadata
\* write fails, and a failed call leaves the persisted card transactions as
\* they were; a successful call appends exactly one transaction, with that
\* cardId and status 'completed', and leaves the earlier transactions and
\* the card list as they were.
C27_CardPaymentOutcomes ==
    [][ret'.op = "cardService.processCardPayment" =>
           LET u == ret'.user
               cards == StoredCards(cardMetadata, u)
               before == StoredCardTransactions(cardMetadata, u)
               after == StoredCardTransactions(cardMetadata', u)
           IN /\ (~\E i \in DOMAIN cards : cards[i].id = ret'.cardId) =>
                     ~ret'.success /\ ret'.error = "Card not found"
              /\ ~ret'.persisted =>
                     ~ret'.success /\ ret'.error = "Failed to process payment"
              /\ ~ret'.success => after = before
              /\ ret'.success =>
                     /\ Len(after) = Len(before) + 1
                     /\ SubSeq(after, 1, Len(before)) = before
                     /\ after[Len(after)].cardId = ret'.cardId
                     /\ after[Len(after)].status = "completed"
                     /\ StoredCards(cardMetadata', u) = cards]_vars

\* C27 witness: a payment with a stored card succeeded after an earlier one
C27_Witness ==
    /\ ret.op = "cardService.processCardPayment"
    /\ ret.success
    /\ Len(StoredCardTransactions(cardMetadata, ret.user)) >= 2

\* no two records of the list share an id
UniqueIds(list) ==
    \A i, j \in DOMAIN list : i # j => list[i].id # list[j].id

\* C22: after every step no two accounts share an id and no two
\* transactions share an id, and a step leaves the id of every account and
\* of every transaction that stays in its list as it was.
C22_UniqueImmutableIds ==
    [][/\ UniqueIds(Accounts')
       /\ UniqueIds(Transactions')
       /\ \A i \in DOMAIN Accounts \cap DOMAIN Accounts' :
              Accounts'[i].id = Accounts[i].id
       /\ \A t \in DOMAIN Transactions :
              \E k \in DOMAIN Transactions' :
                  Transactions'[k].id = Transactions[t].id]_vars

LogReads == {"getAccountBalance", "getSpendingAnalytics",
             "getRecentTransactions", "getAccountSummary",
             "getAccountTransactions"}

\* C23: in the local build a read of the log made while the owner has no
\* persisted blob succeeds with the result of an empty transaction list: no
\* transactions returned, a count of 0, the base balance.
C23_AbsentBlobReadsEmpty ==
    [][(/\ impl = "local"
        /\ ServiceCall
        /\ ret'.op \in LogReads
        /\ localStorage[StorageKey(ret'.user)] = <<>>) =>
           /\ ret'.success
           /\ ret'.result = <<>>
           /\ ret'.totalCount = 0
           /\ ret'.op = "getAccountBalance" => ret'.balance = BaseBalance]_vars

\* C24: a page returned by getRecentTransactions is sorted by date, newest
\* first; nothing on it is older than anything on the next page; totalCount
\* is the number of transactions of the owner's log and totalPages is
\* totalCount / limit rounded up.
C24_ListingOrderAndCounts ==
    [][(ret'.op = "getRecentTransactions" /\ ret'.success) =>
           LET page == ret'.result
               next == getRecentTransactions(World', ret'.user, ret'.page + 1,
                                             ret'.limit, <<>>, TRUE).r.result
               stored == getLocalStorageData(World', ret'.user).transactions
           IN /\ \A i, j \in DOMAIN page :
                     i < j => page[i].date >= page[j].date
              /\ \A i \in DOMAIN page : \A j \in DOMAIN next :
                     page[i].date >= next[j].date
              /\ ret'.totalCount = Len(stored)
              /\ ret'.totalPages * ret'.limit >= ret'.totalCount
              /\ (ret'.totalPages - 1) * ret'.limit < ret'.totalCount
                     \/ ret'.totalPages = 0]_vars

\* C24 witness: two records added one after the other, the older first in
\* the log, have come back on one page with the newer first
C24_Witness ==
    /\ ret.op = "getRecentTransactions"
    /\ ret.success
    /\ Len(ret.result) = 2
    /\ ret.result[1].date > ret.result[2].date
    /\ ret.result[1].id.prefix = ""
    /\ ret.result[2].id.prefix = ""

\* the branch the options of the call r select: card payment before internal
\* transfer before external transfer
SelectedBranch(r) ==
    IF r.paymentMethodId # "" /\ r.recipientEmail # "" THEN "card_payment"
    ELSE IF r.fromAccountId # NoId /\ r.toAccountId # NoId THEN "transfer"
    ELSE IF r.recipientEmail # "" THEN "external_transfer"
    ELSE "none"

\* the messages that start with 'Invalid transfer parameters'
InvalidTransferParameters ==
    {"Invalid transfer parameters",
     "Invalid transfer parameters: must provide either account IDs, recipient email, or payment method"}

SubmissionEnds ==
    /\ ServiceCall
    /\ ret'.dialog = "TransferForm"
    /\ \/ ret'.payment \in {"succeeded", "failed"}
       \/ /\ ret'.payment = "bank"
          /\ ret'.amount > 0
          /\ ret'.recipientEmail # ""

\* the run recorded a transaction and went on to onTransferComplete and
\* onClose
TransferCompleted ==
    /\ ret'.op = "processCardPayment"
    /\ ret'.success
    /\ \E k \in StorageKeys :
           Len(Stored(localStorage', k)) = Len(Stored(localStorage, k)) + 1

\* C28: a submission of the transfer form with a valid amount and recipient,
\* by card or by bank account, ends with loading off and with exactly one of
\* the two: a transaction recorded and the dialog completed and closed, or
\* an error message on show.
C28_SubmitOutcome ==
    [][SubmissionEnds =>
           /\ ~ui'.loading
           /\ TransferCompleted # (ui'.error # "")]_vars


\* the Dashboard is at rest: not loading and no loadDashboardData awaiting
DashboardAtRest ==
    ui.dialog = "Dashboard" => ~ui.loading /\ ui.pending = <<>>

\* C29: a bankDataUpdated event for the signed-in owner starts only finitely
\* many Dashboard loads: getAccountSummary saves generated transactions at
\* most once for the owner, and the Dashboard comes to rest with loading off
\* and no load awaiting.
C29_RefreshTerminates ==
    /\ [](ui.dialog = "Dashboard" => ui.seeded <= 1)
    /\ <>[]DashboardAtRest


\* the step in which a transferMoney call of the clerk build, resumed from
\* getBankingData, decides and books the transfer
TransferBooks ==
    /\ ServiceCall
    /\ impl = "clerk"
    /\ ret'.dialog = "BankAccounts"
    /\ ret'.op = "transferMoney"
    /\ ret'.payment = "saveBankingData"

\* C30: with transferMoney calls of the clerk build overlapping at their
\* awaits, no balance is ever negative; a call that goes on to return
\* success takes its amount from the source, adds it to the destination and
\* appends one debit and one credit record; every other step of a call
\* leaves balances and log as they were.
C30_NoOverdraw ==
    [][/\ \A j \in DOMAIN Accounts' : Accounts'[j].balance >= 0
       /\ (TransferBooks /\ ret'.fromAccountId # ret'.toAccountId) =>
              /\ BalanceOf(Accounts', ret'.fromAccountId)
                     = BalanceOf(Accounts, ret'.fromAccountId) - ret'.amount
              /\ BalanceOf(Accounts', ret'.toAccountId)
                     = BalanceOf(Accounts, ret'.toAccountId) + ret'.amount
              /\ Len(Transactions') = Len(Transactions) + 2
              /\ SubSeq(Transactions', 1, Len(Transactions)) = Transactions
              /\ LET debit == Transactions'[Len(Transactions) + 1]
                     credit == Transactions'[Len(Transactions) + 2]
                 IN /\ debit.type = "debit"
                    /\ credit.type = "credit"
                    /\ debit.amount = ret'.amount
                    /\ credit.amount = ret'.amount
                    /\ debit.fromAccount = ret'.fromAccountId
                    /\ credit.toAccount = ret'.toAccountId
       /\ (ServiceCall /\ ret'.dialog = "BankAccounts" /\ ~TransferBooks) =>
              LedgerUnchanged]_vars

\* a second call from the same source was refused for insufficient funds
\* while the first, already booked, still awaited its save
C30_Witness ==
    /\ impl = "clerk"
    /\ ret.dialog = "BankAccounts"
    /\ ret.op = "transferMoney"
    /\ ret.error = "Insufficient funds"
    /\ \E i \in DOMAIN ui.pending :
           /\ ui.pending[i].awaiting = "saveBankingData"
           /\ ui.pending[i].fromAccount = ret.fromAccountId
           /\ ui.pending[i].toAccount # ret.fromAccountId

====
